---------------------------- MODULE Spec2Model ----------------------------
(***************************************************************************)
(* The embedded key-value engine of bench_vs.c ("KVM"): one memory region  *)
(* holding a Bloom bitmap, a bucket table and an append-only data zone.    *)
(*                                                                         *)
(* Representation.                                                         *)
(*  - A C string is a sequence of runs <<byte, count>> (count > 0, adjacent*)
(*    runs of different bytes), so that a value of tens of megabytes is a  *)
(*    value of the model; strlen is StrLen.                                *)
(*  - A uint32_t is a pair <<hi, lo>> of 16-bit halves: the hash functions *)
(*    wrap modulo 2^32, which exceeds the integers of the model checker.   *)
(*  - The Bloom bitmap is the set of the indices of its set bits; bit h is *)
(*    bit (h & 7) of byte (h >> 3).                                        *)
(*  - The bucket table is the function buckets from the slots assigned    *)
(*    since kvm_open to their values; every other slot still holds the 0   *)
(*    that kvm_open's memset wrote (Slot reads a slot).                    *)
(*  - The data zone is the function mem from the offset of each written    *)
(*    entry to its fields; data holds the bytes after the 12-byte header.  *)
(*  - ref, nput, puts and last are history variables: the reference map,   *)
(*    the number of puts that returned 0, the successful puts in order     *)
(*    (key, value, and the cursor when the call began) and the last call   *)
(*    with its result.                                                     *)
(*  - thr holds the position and the locals of the two writer threads of   *)
(*    the concurrent specification; under Spec both stay idle.             *)
(***************************************************************************)
EXTENDS Integers, Sequences, FiniteSets, TLC

VARIABLES phase, mem_size, bloom, buckets, write_pos, count, mem,
          ref, nput, puts, last, thr

vars == <<phase, mem_size, bloom, buckets, write_pos, count, mem,
          ref, nput, puts, last, thr>>

dbvars == <<mem_size, bloom, buckets, write_pos, count, mem>>

(***************************************************************************)
(* Layout constants.                                                       *)
(***************************************************************************)
BUCKET_COUNT == 8 * 1024
BLOOM_SIZE == 2^20
POOL_SIZE == 64 * 1024 * 1024
BLOOM_OFF == 0
BUCKET_OFF == BLOOM_SIZE \div 8
SizeofU32 == 4
DATA_OFF == BUCKET_OFF + BUCKET_COUNT * SizeofU32
SizeofEntry == 12

(***************************************************************************)
(* Bounds of the model.                                                    *)
(***************************************************************************)
MaxPuts == 3

(***************************************************************************)
(* C strings as runs.                                                      *)
(***************************************************************************)
RECURSIVE StrLen(_)
StrLen(s) == IF s = <<>> THEN 0 ELSE s[1][2] + StrLen(Tail(s))

RECURSIVE ByteAt(_, _)
ByteAt(s, i) == IF i < s[1][2] THEN s[1][1] ELSE ByteAt(Tail(s), i - s[1][2])

RECURSIVE Take(_, _)
Take(s, n) ==
    IF n = 0 \/ s = <<>> THEN <<>>
    ELSE IF s[1][2] >= n THEN << <<s[1][1], n>> >>
    ELSE <<s[1]>> \o Take(Tail(s), n - s[1][2])

RECURSIVE Drop(_, _)
Drop(s, n) ==
    IF n = 0 \/ s = <<>> THEN s
    ELSE IF s[1][2] > n THEN << <<s[1][1], s[1][2] - n>> >> \o Tail(s)
    ELSE Drop(Tail(s), n - s[1][2])

Cat(s, t) ==
    IF s = <<>> THEN t
    ELSE IF t = <<>> THEN s
    ELSE IF s[Len(s)][1] = t[1][1]
         THEN SubSeq(s, 1, Len(s) - 1)
              \o << <<t[1][1], s[Len(s)][2] + t[1][2]>> >> \o Tail(t)
         ELSE s \o t

RECURSIVE Str(_)
Str(bytes) == IF bytes = <<>> THEN <<>>
              ELSE Cat(<< <<bytes[1], 1>> >>, Str(Tail(bytes)))

(***************************************************************************)
(* uint32_t arithmetic on <<hi, lo>>.                                      *)
(***************************************************************************)
Half == 2^16

RECURSIVE BitXor(_, _)
BitXor(a, b) == IF a = 0 THEN b
                ELSE IF b = 0 THEN a
                ELSE (((a % 2) + (b % 2)) % 2) + 2 * BitXor(a \div 2, b \div 2)

\* h ^ c for a byte c
XorU32(h, c) == <<h[1], BitXor(h[2], c)>>

\* h * (a * 65536 + b) modulo 2^32, for a, b < 2^15
MulU32(h, a, b) ==
    <<(h[1] * b + (h[2] * b) \div Half + h[2] * a) % Half, (h[2] * b) % Half>>

\* h + c modulo 2^32, for c < 2^16
AddU32(h, c) == <<(h[1] + (h[2] + c) \div Half) % Half, (h[2] + c) % Half>>

\* h % m, for m a divisor of 2^32
ModU32(h, m) == IF m <= Half THEN h[2] % m
                ELSE (h[1] % (m \div Half)) * Half + h[2]

(***************************************************************************)
(* The three hash functions.                                               *)
(***************************************************************************)
RECURSIVE fnv1a_loop(_, _, _, _)
fnv1a_loop(h, key, i, len) ==
    IF i < len
    THEN fnv1a_loop(MulU32(XorU32(h, ByteAt(key, i)), 256, 403), key, i + 1, len)
    ELSE h

fnv1a(key, len) == fnv1a_loop(<<33052, 40389>>, key, 0, len)

RECURSIVE hash2_loop(_, _, _, _)
hash2_loop(h, key, i, len) ==
    IF i < len
    THEN hash2_loop(XorU32(MulU32(h, 0, 33), ByteAt(key, i)), key, i + 1, len)
    ELSE h

hash2(key, len) == hash2_loop(<<23505, 59797>>, key, 0, len)

RECURSIVE hash3_loop(_, _, _, _)
hash3_loop(h, key, i, len) ==
    IF i < len
    THEN hash3_loop(AddU32(MulU32(h, 0, 31), ByteAt(key, i)), key, i + 1, len)
    ELSE h

hash3(key, len) == hash3_loop(<<33052, 40389>>, key, 0, len)

(***************************************************************************)
(* Inputs.  Keys and values are NUL-terminated strings of bytes 1..127     *)
(* (for these, `key[i]' converts to the same uint32_t whether char is      *)
(* signed or not).  The keys are chosen so that the cases of interest      *)
(* occur with the real hash functions and table sizes:                     *)
(*   "5f8" and "5f8t": one a prefix of the other, same bucket (7886), same *)
(*                     first Bloom bit;                                    *)
(*   "4G8": hash2 sets the second Bloom bit of "5f8";                      *)
(*   "6G8": hash3 sets the third Bloom bit of "5f8";                       *)
(* so after "5f8t", "4G8" and "6G8" are put, the filter answers "maybe"    *)
(* for "5f8" although it was never put.  BigVal nearly fills the region.   *)
(***************************************************************************)
K_5f8 == Str(<<53, 102, 56>>)
K_5f8t == Str(<<53, 102, 56, 116>>)
K_4G8 == Str(<<52, 71, 56>>)
K_6G8 == Str(<<54, 71, 56>>)
Keys == {K_5f8, K_5f8t, K_4G8, K_6G8}

BigLen == POOL_SIZE - DATA_OFF - 31
BigVal == << <<118, BigLen>> >>
Values == {<<>>, Str(<<116>>), BigVal}

NoVal == << <<0, 1>> >>   \* no C string holds a NUL: marks "never put" in ref

(***************************************************************************)
(* bloom_add / bloom_maybe                                                 *)
(***************************************************************************)
\* Mutant of bloom_add: the third bit is set from h2 again (a copied line).
bloom_add_slip(bl, key, len) ==
    LET h1 == ModU32(fnv1a(key, len), BLOOM_SIZE)
        h2 == ModU32(hash2(key, len), BLOOM_SIZE)
    IN  ((bl \cup {h1}) \cup {h2}) \cup {h2}

\* Mutant of bloom_add: `^=' for `|=', a set bit is toggled off.
bloom_add_toggle(bl, key, len) ==
    LET h1 == ModU32(fnv1a(key, len), BLOOM_SIZE)
        h2 == ModU32(hash2(key, len), BLOOM_SIZE)
        h3 == ModU32(hash3(key, len), BLOOM_SIZE)
        Flip(b, h) == IF h \in b THEN b \ {h} ELSE b \cup {h}
    IN  Flip(Flip(Flip(bl, h1), h2), h3)

bloom_add(bl, key, len) ==
    LET h1 == ModU32(fnv1a(key, len), BLOOM_SIZE)
        h2 == ModU32(hash2(key, len), BLOOM_SIZE)
        h3 == ModU32(hash3(key, len), BLOOM_SIZE)
    IN  ((bl \cup {h1}) \cup {h2}) \cup {h3}

bloom_maybe(bl, key, len) ==
    LET h1 == ModU32(fnv1a(key, len), BLOOM_SIZE)
        h2 == ModU32(hash2(key, len), BLOOM_SIZE)
        h3 == ModU32(hash3(key, len), BLOOM_SIZE)
    IN  h1 \in bl /\ h2 \in bl /\ h3 \in bl

(***************************************************************************)
(* kvm_open                                                                *)
(***************************************************************************)
\* env: what the allocator did in kvm_open; prevfail: the call before this
\* one was a put that returned -1; misuse: the handle was not open
NoCall == [op |-> "none", key |-> <<>>, val |-> <<>>, ret |-> 0,
           got |-> [st |-> "null", v |-> <<>>],
           env |-> "ok", prevfail |-> FALSE, misuse |-> FALSE]

Threads == {1, 2}

\* pc is the line of kvm_put the thread is about to execute; e is its local
\* pointer as an offset, reg the value loaded for `+=' or `++', ret the
\* return value; ov records that the call began while another was running
Idle == [pc |-> "idle", key |-> <<>>, val |-> <<>>, e |-> 0, reg |-> 0,
         ret |-> 0, ov |-> FALSE]

Init ==
    /\ phase = "init"
    /\ mem_size = 0
    /\ bloom = {}
    /\ buckets = [b \in {} |-> 0]
    /\ write_pos = 0
    /\ count = 0
    /\ mem = [o \in {} |-> 0]
    /\ ref = [k \in Keys |-> NoVal]
    /\ nput = 0
    /\ puts = <<>>
    /\ last = NoCall
    /\ thr = [t \in Threads |-> Idle]

\* calloc_ok, mmap_ok, malloc_ok: whether calloc returns a block, mmap a
\* mapping, and the fallback malloc a block.  No result is tested except
\* mmap's: with calloc NULL the store `db->mem_size = POOL_SIZE' goes through
\* a null pointer, with mmap and malloc both failing memset is handed NULL.
\* Both are undefined: the process is killed ("crashed") or runs on and
\* returns a handle with no region behind it ("wild").
AllocOutcome(calloc_ok, mmap_ok, malloc_ok) ==
    IF ~calloc_ok THEN "calloc_null"
    ELSE IF mmap_ok THEN "ok"
    ELSE IF malloc_ok THEN "malloc"
    ELSE "no_memory"

kvm_open(calloc_ok, mmap_ok, malloc_ok) ==
    /\ phase = "init"
    /\ LET env == AllocOutcome(calloc_ok, mmap_ok, malloc_ok)
       IN  /\ last' = [NoCall EXCEPT !.op = "open", !.env = env]
           /\ IF env \in {"ok", "malloc"}
              THEN /\ phase' = "open"
                   /\ mem_size' = POOL_SIZE
                   /\ bloom' = {}
                   /\ buckets' = [b \in {} |-> 0]
                   /\ write_pos' = DATA_OFF
                   /\ count' = 0
                   /\ mem' = [o \in {} |-> 0]
              ELSE /\ phase' \in {"crashed", "wild"}
                   /\ UNCHANGED dbvars
    /\ UNCHANGED <<ref, nput, puts, thr>>

kvm_close ==
    /\ phase = "open"
    /\ phase' = "closed"
    /\ last' = [NoCall EXCEPT !.op = "close"]
    /\ UNCHANGED <<dbvars, ref, nput, puts, thr>>

(***************************************************************************)
(* kvm_put                                                                 *)
(***************************************************************************)
\* Mutant of entry_size: the size is not rounded up.
entry_size_noalign(klen, vlen) == SizeofEntry + klen + vlen

\* (sizeof(Entry) + klen + vlen + 7) & ~7
entry_size(klen, vlen) == ((SizeofEntry + klen + vlen + 7) \div 8) * 8

\* Mutant of Fits: `>=' for `>', an entry ending at the region's end is refused.
Fits_strict(wp, es, ms) == ~(wp + es >= ms)

\* Mutant of Fits: the entry size is left out of the comparison.
Fits_cursor_only(wp, es, ms) == ~(wp > ms)

\* the negation of `db->write_pos + entry_size > db->mem_size'
Fits(wp, es, ms) == ~(wp + es > ms)

\* Mutant of bucket_of: the bucket is taken from hash2.
bucket_of_hash2(key, klen) == ModU32(hash2(key, klen), BUCKET_COUNT)

bucket_of(key, klen) == ModU32(fnv1a(key, klen), BUCKET_COUNT)

\* Mutant of WriteEntry: e->next is left 0, the old head is not linked.
WriteEntry_nonext(m, wp, key, klen, value, vlen, head) ==
    (wp :> [klen |-> klen, vlen |-> vlen, next |-> 0,
            data |-> Cat(Take(key, klen), Take(value, vlen))]) @@ m

\* Mutant of WriteEntry: e->next is the entry's own offset.
WriteEntry_selfnext(m, wp, key, klen, value, vlen, head) ==
    (wp :> [klen |-> klen, vlen |-> vlen, next |-> wp,
            data |-> Cat(Take(key, klen), Take(value, vlen))]) @@ m

\* Mutant of WriteEntry: `e->vlen = klen' for `e->vlen = vlen'.
WriteEntry_vlen_slip(m, wp, key, klen, value, vlen, head) ==
    (wp :> [klen |-> klen, vlen |-> klen, next |-> head,
            data |-> Cat(Take(key, klen), Take(value, vlen))]) @@ m

\* e = mem + write_pos; e->klen, e->vlen, e->next; the two memcpy
WriteEntry(m, wp, key, klen, value, vlen, head) ==
    (wp :> [klen |-> klen, vlen |-> vlen, next |-> head,
            data |-> Cat(Take(key, klen), Take(value, vlen))]) @@ m

\* db->buckets[bucket]
Slot(bk, bucket) == IF bucket \in DOMAIN bk THEN bk[bucket] ELSE 0

\* Mutant of LinkHead: the head is set only when the bucket is empty.
LinkHead_keep(bk, bucket, wp) ==
    IF Slot(bk, bucket) = 0 THEN (bucket :> wp) @@ bk ELSE bk

\* Mutant of LinkHead: the offset is stored relative to the data zone.
LinkHead_rel(bk, bucket, wp) == (bucket :> (wp - DATA_OFF)) @@ bk

\* db->buckets[bucket] = db->write_pos
LinkHead(bk, bucket, wp) == (bucket :> wp) @@ bk

\* Mutant of AdvanceCursor: the header is added once more.
AdvanceCursor_hdr(wp, es) == wp + es + SizeofEntry

\* Mutant of AdvanceCursor: the cursor stops inside the entry's last word.
AdvanceCursor_short(wp, es) == wp + es - 8

\* db->write_pos += entry_size
AdvanceCursor(wp, es) == wp + es

\* Mutant of IncCount: the counter is bumped twice.
IncCount_twice(c) == c + 2

\* db->count++
IncCount(c) == c + 1

\* the call before this one was a put that returned -1
PrevFailed == last.op = "put" /\ last.ret = -1

\* Mutant of kvm_put: the capacity check comes after the entry is written
\* and linked.
kvm_put_late(key, value) ==
    /\ phase = "open"
    /\ LET klen == StrLen(key)
           vlen == StrLen(value)
           es == entry_size(klen, vlen)
           bucket == bucket_of(key, klen)
       IN  /\ mem' = WriteEntry(mem, write_pos, key, klen, value, vlen,
                                Slot(buckets, bucket))
           /\ buckets' = LinkHead(buckets, bucket, write_pos)
           /\ bloom' = bloom_add(bloom, key, klen)
           /\ IF ~Fits(write_pos, es, mem_size)
              THEN /\ last' = [NoCall EXCEPT !.op = "put", !.key = key,
                                             !.val = value, !.ret = -1]
                   /\ UNCHANGED <<phase, mem_size, write_pos, count, ref, nput,
                                  puts, thr>>
              ELSE /\ count < MaxPuts
                   /\ write_pos' = AdvanceCursor(write_pos, es)
                   /\ count' = IncCount(count)
                   /\ ref' = [ref EXCEPT ![key] = value]
                   /\ nput' = nput + 1
                   /\ puts' = Append(puts, [key |-> key, val |-> value,
                                            at |-> write_pos])
                   /\ last' = [NoCall EXCEPT !.op = "put", !.key = key,
                                             !.val = value, !.ret = 0,
                                             !.prevfail = PrevFailed]
                   /\ UNCHANGED <<phase, mem_size, thr>>

kvm_put(key, value) ==
    /\ phase = "open"
    /\ LET klen == StrLen(key)
           vlen == StrLen(value)
           es == entry_size(klen, vlen)
           bucket == bucket_of(key, klen)
       IN  IF ~Fits(write_pos, es, mem_size)
           THEN /\ last' = [NoCall EXCEPT !.op = "put", !.key = key,
                                          !.val = value, !.ret = -1]
                /\ UNCHANGED <<phase, dbvars, ref, nput, puts, thr>>
           ELSE /\ count < MaxPuts
                /\ mem' = WriteEntry(mem, write_pos, key, klen, value, vlen,
                                     Slot(buckets, bucket))
                /\ buckets' = LinkHead(buckets, bucket, write_pos)
                /\ bloom' = bloom_add(bloom, key, klen)
                /\ write_pos' = AdvanceCursor(write_pos, es)
                /\ count' = IncCount(count)
                /\ ref' = [ref EXCEPT ![key] = value]
                /\ nput' = nput + 1
                /\ puts' = Append(puts, [key |-> key, val |-> value,
                                         at |-> write_pos])
                /\ last' = [NoCall EXCEPT !.op = "put", !.key = key,
                                          !.val = value, !.ret = 0,
                                          !.prevfail = PrevFailed]
                /\ UNCHANGED <<phase, mem_size, thr>>

(***************************************************************************)
(* kvm_get.  The result is "null" (NULL), "val" (a fresh copy of the       *)
(* value), "wild" (the walk read an offset where no entry was written: the *)
(* bytes there are indeterminate) or "loop" (the walk does not end).       *)
(***************************************************************************)
Null == [st |-> "null", v |-> <<>>]

\* Mutant of ChainWalk: the key lengths are not compared before memcmp.
RECURSIVE ChainWalk_nolen(_, _, _, _, _)
ChainWalk_nolen(m, off, key, klen, fuel) ==
    IF ~(off >= DATA_OFF) THEN Null
    ELSE IF off \notin DOMAIN m THEN [st |-> "wild", v |-> <<>>]
    ELSE IF fuel = 0 THEN [st |-> "loop", v |-> <<>>]
    ELSE LET e == m[off]
         IN  IF Take(e.data, klen) = Take(key, klen)
             THEN [st |-> "val", v |-> Take(Drop(e.data, e.klen), e.vlen)]
             ELSE ChainWalk_nolen(m, e.next, key, klen, fuel - 1)

RECURSIVE ChainWalk(_, _, _, _, _)
ChainWalk(m, off, key, klen, fuel) ==
    IF ~(off >= DATA_OFF) THEN Null
    ELSE IF off \notin DOMAIN m THEN [st |-> "wild", v |-> <<>>]
    ELSE IF fuel = 0 THEN [st |-> "loop", v |-> <<>>]
    ELSE LET e == m[off]
         IN  IF e.klen = klen /\ Take(e.data, klen) = Take(key, klen)
             THEN [st |-> "val", v |-> Take(Drop(e.data, e.klen), e.vlen)]
             ELSE ChainWalk(m, e.next, key, klen, fuel - 1)

Get(bl, bk, m, key) ==
    LET klen == StrLen(key)
    IN  IF ~bloom_maybe(bl, key, klen) THEN Null
        ELSE ChainWalk(m, Slot(bk, bucket_of(key, klen)), key, klen,
                       Cardinality(DOMAIN m))

\* Mutant of kvm_get: bloom_add is called where bloom_maybe was meant.
kvm_get_touch(key) ==
    /\ phase = "open"
    /\ last' = [NoCall EXCEPT !.op = "get", !.key = key,
                              !.got = Get(bloom, buckets, mem, key)]
    /\ bloom' = bloom_add(bloom, key, StrLen(key))
    /\ UNCHANGED <<phase, mem_size, buckets, write_pos, count, mem, ref, nput,
                   puts, thr>>

kvm_get(key) ==
    /\ phase = "open"
    /\ last' = [NoCall EXCEPT !.op = "get", !.key = key,
                              !.got = Get(bloom, buckets, mem, key)]
    /\ UNCHANGED <<phase, dbvars, ref, nput, puts, thr>>

\* "Memory used": main reads kvm->write_pos (and prints it in MiB)
MemoryUsed(wp) == wp

Next ==
    \/ \E calloc_ok \in BOOLEAN, mmap_ok \in BOOLEAN, malloc_ok \in BOOLEAN :
          kvm_open(calloc_ok, mmap_ok, malloc_ok)
    \/ \E key \in Keys, value \in Values : kvm_put(key, value)
    \/ \E key \in Keys : kvm_get(key)
    \/ kvm_close

Spec == Init /\ [][Next]_vars

(***************************************************************************)
(* Calls on a handle that is not open: never opened (db is NULL) or        *)
(* already closed (db was freed and its region unmapped).  The code keeps  *)
(* no "closed" mark and tests db only in kvm_close.  kvm_close(NULL) does  *)
(* nothing and returns.  Every other such call reads through a null or a   *)
(* freed pointer, which is undefined: the process is killed, or the call   *)
(* returns some result.                                                    *)
(***************************************************************************)
Garbage == [st |-> "val", v |-> <<>>]

kvm_put_closed(key, value) ==
    /\ phase \in {"init", "closed"}
    /\ \E crash \in BOOLEAN, r \in {0, -1} :
          /\ phase' = IF crash THEN "crashed" ELSE phase
          /\ last' = [NoCall EXCEPT !.op = "put", !.key = key, !.val = value,
                                    !.ret = IF crash THEN 0 ELSE r,
                                    !.misuse = TRUE]
    /\ UNCHANGED <<dbvars, ref, nput, puts, thr>>

kvm_get_closed(key) ==
    /\ phase \in {"init", "closed"}
    /\ \E crash \in BOOLEAN, g \in {Null, Garbage} :
          /\ phase' = IF crash THEN "crashed" ELSE phase
          /\ last' = [NoCall EXCEPT !.op = "get", !.key = key,
                                    !.got = IF crash THEN Null ELSE g,
                                    !.misuse = TRUE]
    /\ UNCHANGED <<dbvars, ref, nput, puts, thr>>

kvm_close_again ==
    /\ phase \in {"init", "closed"}
    /\ IF phase = "init"
       THEN phase' = phase
       ELSE phase' \in {"crashed", phase}
    /\ last' = [NoCall EXCEPT !.op = "close", !.misuse = TRUE]
    /\ UNCHANGED <<dbvars, ref, nput, puts, thr>>

NextMisuse ==
    \/ kvm_close_again
    \/ kvm_get_closed(K_5f8)
    \/ kvm_put_closed(K_5f8, <<>>)
    \/ Next

SpecMisuse == Init /\ [][NextMisuse]_vars

(***************************************************************************)
(* Two threads call kvm_put on one open engine, once each.  The code takes *)
(* no lock, so the statements of the two calls interleave.  Every          *)
(* `db->write_pos', `db->buckets[bucket]' and `db->count' in the source is *)
(* a load or a store of its own; `+=' and `++' are a load followed by a    *)
(* store.  Lines 107-110 (the entry write, with the load of the bucket     *)
(* head) are one step, and so is bloom_add.  A write that runs past the    *)
(* end of the region is undefined: the process is killed, or the bytes     *)
(* land in memory that happens to be mapped.                               *)
(***************************************************************************)
InitConc ==
    /\ phase = "open"
    /\ mem_size = POOL_SIZE
    /\ bloom = {}
    /\ buckets = [b \in {} |-> 0]
    /\ write_pos = DATA_OFF
    /\ count = 0
    /\ mem = [o \in {} |-> 0]
    /\ ref = [k \in Keys |-> NoVal]
    /\ nput = 0
    /\ puts = <<>>
    /\ last = NoCall
    /\ thr = [t \in Threads |-> Idle]

Running(t) == thr[t].pc \notin {"idle", "done"}

\* the thread enters kvm_put(db, key, value)
put_call(t, key, value) ==
    /\ phase = "open" /\ thr[t].pc = "idle"
    /\ thr' = [thr EXCEPT ![t] =
                  [Idle EXCEPT !.pc = "L105", !.key = key, !.val = value,
                               !.ov = \E u \in Threads \ {t} : Running(u)]]
    /\ UNCHANGED <<phase, dbvars, ref, nput, puts, last>>

\* line 105: if (db->write_pos + entry_size > db->mem_size) return -1;
put_check(t) ==
    /\ phase = "open" /\ thr[t].pc = "L105"
    /\ LET es == entry_size(StrLen(thr[t].key), StrLen(thr[t].val))
       IN  thr' = IF ~Fits(write_pos, es, mem_size)
                  THEN [thr EXCEPT ![t].pc = "done", ![t].ret = -1]
                  ELSE [thr EXCEPT ![t].pc = "L107"]
    /\ UNCHANGED <<phase, dbvars, ref, nput, puts, last>>

\* line 107: Entry *e = (Entry*)(db->mem + db->write_pos);
put_entry_ptr(t) ==
    /\ phase = "open" /\ thr[t].pc = "L107"
    /\ thr' = [thr EXCEPT ![t].pc = "L108", ![t].e = write_pos]
    /\ UNCHANGED <<phase, dbvars, ref, nput, puts, last>>

\* lines 108-110: the header, with e->next = db->buckets[bucket], and the
\* key and value bytes
put_write_entry(t) ==
    /\ phase = "open" /\ thr[t].pc = "L108"
    /\ LET key == thr[t].key
           value == thr[t].val
           klen == StrLen(key)
           vlen == StrLen(value)
           es == entry_size(klen, vlen)
           bucket == bucket_of(key, klen)
           written == WriteEntry(mem, thr[t].e, key, klen, value, vlen,
                                 Slot(buckets, bucket))
       IN  IF thr[t].e + es > mem_size
           THEN \E crash \in BOOLEAN :
                   /\ phase' = IF crash THEN "crashed" ELSE phase
                   /\ mem' = IF crash THEN mem ELSE written
           ELSE /\ mem' = written
                /\ phase' = phase
    /\ thr' = [thr EXCEPT ![t].pc = "L111"]
    /\ UNCHANGED <<mem_size, bloom, buckets, write_pos, count, ref, nput,
                   puts, last>>

\* line 111: db->buckets[bucket] = db->write_pos;
put_link_head(t) ==
    /\ phase = "open" /\ thr[t].pc = "L111"
    /\ buckets' = LinkHead(buckets,
                           bucket_of(thr[t].key, StrLen(thr[t].key)),
                           write_pos)
    /\ thr' = [thr EXCEPT ![t].pc = "L112"]
    /\ UNCHANGED <<phase, mem_size, bloom, write_pos, count, mem, ref, nput,
                   puts, last>>

\* line 112: bloom_add(db, key, klen);
put_bloom(t) ==
    /\ phase = "open" /\ thr[t].pc = "L112"
    /\ bloom' = bloom_add(bloom, thr[t].key, StrLen(thr[t].key))
    /\ thr' = [thr EXCEPT ![t].pc = "L113"]
    /\ UNCHANGED <<phase, mem_size, buckets, write_pos, count, mem, ref,
                   nput, puts, last>>

\* line 113, the load of db->write_pos += entry_size
put_cursor_load(t) ==
    /\ phase = "open" /\ thr[t].pc = "L113"
    /\ thr' = [thr EXCEPT ![t].pc = "L113s", ![t].reg = write_pos]
    /\ UNCHANGED <<phase, dbvars, ref, nput, puts, last>>

\* line 113, the store of db->write_pos += entry_size
put_cursor_store(t) ==
    /\ phase = "open" /\ thr[t].pc = "L113s"
    /\ write_pos' = AdvanceCursor(thr[t].reg,
                                  entry_size(StrLen(thr[t].key),
                                             StrLen(thr[t].val)))
    /\ thr' = [thr EXCEPT ![t].pc = "L114"]
    /\ UNCHANGED <<phase, mem_size, bloom, buckets, count, mem, ref, nput,
                   puts, last>>

\* line 114, the load of db->count++
put_count_load(t) ==
    /\ phase = "open" /\ thr[t].pc = "L114"
    /\ thr' = [thr EXCEPT ![t].pc = "L114s", ![t].reg = count]
    /\ UNCHANGED <<phase, dbvars, ref, nput, puts, last>>

\* line 114, the store of db->count++, and line 115: return 0;
put_count_store(t) ==
    /\ phase = "open" /\ thr[t].pc = "L114s"
    /\ count' = IncCount(thr[t].reg)
    /\ thr' = [thr EXCEPT ![t].pc = "done", ![t].ret = 0]
    /\ ref' = [ref EXCEPT ![thr[t].key] = thr[t].val]
    /\ nput' = nput + 1
    /\ puts' = Append(puts, [key |-> thr[t].key, val |-> thr[t].val,
                             at |-> thr[t].e])
    /\ UNCHANGED <<phase, mem_size, bloom, buckets, write_pos, mem, last>>

NextConc ==
    \E t \in Threads :
        \/ \E key \in Keys, value \in Values : put_call(t, key, value)
        \/ put_check(t)
        \/ put_entry_ptr(t)
        \/ put_write_entry(t)
        \/ put_link_head(t)
        \/ put_bloom(t)
        \/ put_cursor_load(t)
        \/ put_cursor_store(t)
        \/ put_count_load(t)
        \/ put_count_store(t)

SpecConc == InitConc /\ [][NextConc]_vars

(***************************************************************************)
(* Properties.                                                             *)
(***************************************************************************)
Found(v) == [st |-> "val", v |-> v]

\* what kvm_get(key) returns in the current state
GetNow(key) == Get(bloom, buckets, mem, key)

\* the key bytes stored in the entry at offset o
KeyAt(o) == Take(mem[o].data, mem[o].klen)

\* the offsets met by following next from off while off >= DATA_OFF
RECURSIVE ChainFrom(_, _)
ChainFrom(off, fuel) ==
    IF off < DATA_OFF \/ off \notin DOMAIN mem \/ fuel = 0 THEN {}
    ELSE {off} \cup ChainFrom(mem[off].next, fuel - 1)

ChainOf(b) == ChainFrom(Slot(buckets, b), Cardinality(DOMAIN mem))

Buckets == 0 .. BUCKET_COUNT - 1

\* the slots assigned since kvm_open; every other slot of Buckets holds 0,
\* the sentinel, and its chain is empty
Assigned == DOMAIN buckets

\* the bucket of a key as the claims state it: fnv1a modulo the bucket count
PrimaryBucket(key) == ModU32(fnv1a(key, StrLen(key)), BUCKET_COUNT)

\* header + key + value, rounded up to a multiple of 8
AlignedSize(key, value) ==
    LET n == 12 + StrLen(key) + StrLen(value)
    IN  IF n % 8 = 0 THEN n ELSE n + (8 - (n % 8))

\* C1: round-trip. In every state that a successful kvm_put(k, v) has just
\* produced, kvm_get(k) returns exactly v.
RoundTrip ==
    (phase = "open" /\ last.op = "put" /\ last.ret = 0)
        => GetNow(last.key) = Found(last.val)

\* a put of "5f8" succeeded onto a chain that already holds an entry
RoundTripWitness ==
    /\ phase = "open" /\ last.op = "put" /\ last.ret = 0
    /\ last.key = K_5f8 /\ last.val = Str(<<116>>)
    /\ mem[Slot(buckets, PrimaryBucket(K_5f8))].next >= DATA_OFF

\* C2: last-write-wins. For every key that was successfully put, kvm_get
\* returns the value of the most recent successful put of that key (the
\* reference map ref).
LastWriteWins ==
    phase = "open" =>
        \A k \in Keys : ref[k] # NoVal => GetNow(k) = Found(ref[k])

\* "5f8" was put twice and "5f8t" (same bucket) once, and the last value of
\* "5f8" is the empty string
LastWriteWinsWitness ==
    /\ phase = "open"
    /\ Cardinality({o \in DOMAIN mem : KeyAt(o) = K_5f8}) = 2
    /\ Cardinality({o \in DOMAIN mem : KeyAt(o) = K_5f8t}) = 1
    /\ ref[K_5f8] = <<>>
    /\ KeyAt(Slot(buckets, PrimaryBucket(K_5f8))) = K_5f8t

\* C3: miss path. kvm_get returns NULL for every key that was never
\* successfully put.
MissPath ==
    phase = "open" => \A k \in Keys : ref[k] = NoVal => GetNow(k) = Null

\* kvm_get("5f8") has just answered while "5f8" was never put, the filter
\* says "maybe" for it (a false positive) and its bucket's chain holds "5f8t",
\* an extension of it with the stored bytes "5f8tt"
MissPathWitness ==
    /\ phase = "open" /\ last.op = "get" /\ last.key = K_5f8
    /\ ref[K_5f8] = NoVal
    /\ bloom_maybe(bloom, K_5f8, StrLen(K_5f8))
    /\ \E o \in ChainOf(PrimaryBucket(K_5f8)) :
           KeyAt(o) = K_5f8t /\ mem[o].data = Str(<<53, 102, 56, 116, 116>>)

\* C4: capacity failure. A kvm_put whose aligned entry would end past
\* mem_size returns -1 and leaves the cursor, the count, the bucket table,
\* the Bloom bitmap and the data zone as they were.
CapacityFailure ==
    [][(phase = "open" /\ last'.op = "put"
        /\ write_pos + AlignedSize(last'.key, last'.val) > mem_size)
       => (last'.ret = -1 /\ UNCHANGED dbvars)]_vars

\* a put has just failed on a region that holds entries
CapacityFailureWitness ==
    /\ phase = "open" /\ last.op = "put" /\ last.ret = -1
    /\ count >= 1 /\ write_pos + AlignedSize(last.key, last.val) > mem_size
    /\ last.val # BigVal

\* C5: no false negatives. Every successfully put key passes bloom_maybe,
\* and whenever bloom_maybe(k) is false the chain of k's bucket holds no
\* entry with key k.
BloomNoFalseNegative ==
    phase = "open" =>
        \A k \in Keys :
            /\ ref[k] # NoVal => bloom_maybe(bloom, k, StrLen(k))
            /\ ~bloom_maybe(bloom, k, StrLen(k))
                  => \A o \in ChainOf(PrimaryBucket(k)) : KeyAt(o) # k

\* "5f8t" is in the table and passes the filter, while the filter rejects
\* "5f8", whose bucket's chain is not empty
BloomNoFalseNegativeWitness ==
    /\ phase = "open"
    /\ ref[K_5f8t] # NoVal /\ bloom_maybe(bloom, K_5f8t, StrLen(K_5f8t))
    /\ ~bloom_maybe(bloom, K_5f8, StrLen(K_5f8))
    /\ ChainOf(PrimaryBucket(K_5f8)) # {}

\* C6: write-cursor bounds. While the engine is open the cursor stays in
\* DATA_OFF .. mem_size, and no step decreases it.
CursorBounds ==
    /\ [](phase = "open" => (DATA_OFF <= write_pos /\ write_pos <= mem_size))
    /\ [][phase = "open" => write_pos' >= write_pos]_vars

\* the cursor has reached the end of the region, and a put then failed
CursorBoundsWitness ==
    /\ phase = "open" /\ write_pos = mem_size /\ count = 2
    /\ last.op = "put" /\ last.ret = -1

\* C7: bucket-slot validity. Every bucket slot and every entry's next field
\* holds 0 or the offset of an entry written by put, in DATA_OFF .. write_pos-1.
ValidOffset(x) ==
    x = 0 \/ (x \in DOMAIN mem /\ DATA_OFF <= x /\ x < write_pos)

SlotsValid ==
    phase = "open" =>
        /\ Assigned \subseteq Buckets
        /\ \A b \in Assigned : ValidOffset(Slot(buckets, b))
        /\ \A o \in DOMAIN mem : ValidOffset(mem[o].next)

\* two bucket slots hold offsets and one entry's next field holds one
SlotsValidWitness ==
    /\ phase = "open"
    /\ Cardinality({b \in Assigned : Slot(buckets, b) # 0}) = 2
    /\ \E o \in DOMAIN mem : mem[o].next # 0

\* C8: chain/bucket consistency. Every entry reachable from the head of
\* bucket b has a key whose fnv1a modulo BUCKET_COUNT is b.
ChainConsistent ==
    phase = "open" =>
        \A b \in Assigned : \A o \in ChainOf(b) : PrimaryBucket(KeyAt(o)) = b

\* one chain holds both "5f8" and "5f8t", another chain holds "4G8"
ChainConsistentWitness ==
    /\ phase = "open"
    /\ {KeyAt(o) : o \in ChainOf(PrimaryBucket(K_5f8))} = {K_5f8, K_5f8t}
    /\ ChainOf(PrimaryBucket(K_4G8)) # {}

\* C9: entry counter. While open, count equals the number of successful
\* puts; kvm_open sets it to 0, a successful put adds exactly 1, a failed
\* put and a get leave it, and no step decreases it.
EntryCounter ==
    /\ [](phase = "open" => count = nput)
    /\ [][/\ (phase = "init" /\ phase' = "open") => count' = 0
          /\ (phase = "open" /\ last'.op = "put" /\ last'.ret = 0)
                => count' = count + 1
          /\ (phase = "open" /\ last'.op = "put" /\ last'.ret = -1)
                => count' = count
          /\ (phase = "open" /\ last'.op = "get") => count' = count
          /\ phase = "open" => count' >= count]_vars

\* two puts succeeded and then one failed
EntryCounterWitness ==
    /\ phase = "open" /\ nput = 2 /\ count = 2
    /\ last.op = "put" /\ last.ret = -1

\* C10: Bloom monotonicity. While the region is open, every step leaves
\* every set bit set.
BloomMonotonic ==
    [][(phase = "open" /\ phase' = "open") => bloom \subseteq bloom']_vars

\* the same key was put twice: its three bits were set again, not cleared
BloomMonotonicWitness ==
    /\ phase = "open" /\ count = 2 /\ Cardinality(bloom) = 3
    /\ last.op = "put" /\ last.ret = 0

\* C11: open failure is reported. When calloc fails, or mmap and the
\* fallback malloc both fail, kvm_open ends in the reported error state
\* "alloc_error": it neither crashes nor returns a handle.
OpenFailureReported ==
    (last.op = "open" /\ last.env \in {"calloc_null", "no_memory"})
        => phase = "alloc_error"

\* C12: use after close is a checked precondition violation. Every kvm_put,
\* kvm_get or kvm_close on a handle that is closed or was never opened ends
\* in a loud failure (here: the process dies); none returns to its caller.
UseAfterCloseChecked == last.misuse => phase = "crashed"

\* the sum of the aligned entry sizes of the successful puts
RECURSIVE SumSizes(_)
SumSizes(ps) ==
    IF ps = <<>> THEN 0
    ELSE AlignedSize(ps[1].key, ps[1].val) + SumSizes(Tail(ps))

\* C13 (as stated): the usage the engine reports is the number of bytes
\* written to the data zone, the sum of the aligned entry sizes of the
\* successful puts, and 0 for a freshly opened engine.
UsageIsBytesWritten ==
    phase = "open" => MemoryUsed(write_pos) = SumSizes(puts)

\* C13 (amended): the usage reported is the write cursor, DATA_OFF plus the
\* sum of the aligned entry sizes of the successful puts, and DATA_OFF for a
\* freshly opened engine.
UsageIsCursor ==
    phase = "open" => MemoryUsed(write_pos) = DATA_OFF + SumSizes(puts)

\* three puts succeeded, with entries of 16 and of 24 bytes
UsageIsCursorWitness ==
    /\ phase = "open" /\ Len(puts) = 3
    /\ \E i, j \in 1 .. Len(puts) :
          /\ AlignedSize(puts[i].key, puts[i].val) = 16
          /\ AlignedSize(puts[j].key, puts[j].val) = 24

\* the value bytes stored in the entry at offset o of data zone m
ValIn(m, o) == Take(Drop(m[o].data, m[o].klen), m[o].vlen)
KeyIn(m, o) == Take(m[o].data, m[o].klen)

\* a step in which kvm_put returned 0
PutOk == phase = "open" /\ last'.op = "put" /\ last'.ret = 0

\* C14: cursor advance per put. Every successful kvm_put, of a key already
\* present too, advances the cursor by exactly the aligned entry size and
\* stores the new entry at the cursor's value before the call, an offset
\* that held no entry; the cursor and every entry offset are multiples of 8.
CursorAdvance ==
    /\ [](phase = "open" =>
             (write_pos % 8 = 0 /\ \A o \in DOMAIN mem : o % 8 = 0))
    /\ [][PutOk =>
             /\ write_pos' = write_pos + AlignedSize(last'.key, last'.val)
             /\ write_pos \notin DOMAIN mem
             /\ DOMAIN mem' = DOMAIN mem \cup {write_pos}
             /\ KeyIn(mem', write_pos) = last'.key
             /\ ValIn(mem', write_pos) = last'.val]_vars

\* "5f8t" was put twice, first with "t" (24 bytes) and then with "" (16
\* bytes): two entries hold the key, 40 bytes after DATA_OFF are used
CursorAdvanceWitness ==
    /\ phase = "open" /\ count = 2 /\ write_pos = DATA_OFF + 40
    /\ DOMAIN mem = {DATA_OFF, DATA_OFF + 24}
    /\ \A o \in DOMAIN mem : KeyAt(o) = K_5f8t
    /\ last.op = "put" /\ last.ret = 0

\* C15: put succeeds exactly when the entry fits. A kvm_put on an open
\* engine returns 0 if write_pos + aligned entry size <= mem_size and -1
\* otherwise, whatever the calls before it returned; after it every key put
\* so far is retrievable with its last value.
PutFitsIff ==
    [][(phase = "open" /\ last'.op = "put")
       => /\ last'.ret \in {0, -1}
          /\ last'.ret = 0
                <=> write_pos + AlignedSize(last'.key, last'.val) <= mem_size
          /\ \A k \in Keys :
                ref'[k] # NoVal
                   => Get(bloom', buckets', mem', k) = Found(ref'[k])]_vars

\* after BigVal and a put that failed, a put of a 16-byte entry succeeded and
\* ended exactly at the end of the region
PutFitsIffWitness ==
    /\ phase = "open" /\ last.op = "put" /\ last.ret = 0 /\ last.prevfail
    /\ write_pos = mem_size /\ count = 2
    /\ \E k \in Keys : ref[k] = BigVal /\ GetNow(k) = Found(BigVal)

\* the Bloom bits of a key
KeyBits(key) ==
    {ModU32(fnv1a(key, StrLen(key)), BLOOM_SIZE),
     ModU32(hash2(key, StrLen(key)), BLOOM_SIZE),
     ModU32(hash3(key, StrLen(key)), BLOOM_SIZE)}

\* the first byte after the entry at offset o of data zone m
EndOf(m, o) == o + 12 + m[o].klen + m[o].vlen

\* C16: put frame condition. A successful kvm_put(k, v) leaves every bucket
\* slot but the head of k's bucket, every Bloom bit but the (at most three)
\* bits of k, mem_size and every field of every entry written before as
\* they were; the earlier entries end at or before the new entry's offset;
\* and the new entry's next field is the head of k's bucket before the call.
PutFrame ==
    [][PutOk =>
          LET b == PrimaryBucket(last'.key)
          IN  /\ \A x \in (DOMAIN buckets \cup DOMAIN buckets') \ {b} :
                    Slot(buckets', x) = Slot(buckets, x)
              /\ bloom \subseteq bloom'
              /\ bloom' \ bloom \subseteq KeyBits(last'.key)
              /\ Cardinality(KeyBits(last'.key)) <= 3
              /\ mem_size' = mem_size
              /\ \A o \in DOMAIN mem :
                    /\ o \in DOMAIN mem' /\ mem'[o] = mem[o]
                    /\ EndOf(mem, o) <= write_pos
              /\ mem'[write_pos].next = Slot(buckets, b)]_vars

\* "5f8" was put after "5f8t" (same bucket, first Bloom bit in common) and
\* "4G8" (another bucket, second bit in common): next is the old head
PutFrameWitness ==
    /\ phase = "open" /\ count = 3
    /\ last.op = "put" /\ last.ret = 0 /\ last.key = K_5f8
    /\ ref[K_5f8t] # NoVal /\ ref[K_4G8] # NoVal
    /\ mem[Slot(buckets, PrimaryBucket(K_5f8))].next >= DATA_OFF
    /\ Cardinality(bloom) = 7

\* C18: lookups are read-only. A kvm_get, whether it returns a value or
\* NULL, leaves mem_size, the cursor, the count, the bucket table, the Bloom
\* bitmap and the data zone unchanged, so every key's lookup result is the
\* same after it as before.
GetReadOnly ==
    [][(phase = "open" /\ last'.op = "get")
       => /\ UNCHANGED dbvars
          /\ last'.got = GetNow(last'.key)
          /\ \A k \in Keys : Get(bloom', buckets', mem', k) = GetNow(k)]_vars

\* kvm_get("5f8t") has just returned "t" from the second entry of a chain
\* whose head is "5f8", while the filter rejects "4G8"
GetReadOnlyWitness ==
    /\ phase = "open" /\ last.op = "get" /\ last.key = K_5f8t
    /\ last.got = Found(Str(<<116>>))
    /\ KeyAt(Slot(buckets, PrimaryBucket(K_5f8t))) = K_5f8
    /\ ~bloom_maybe(bloom, K_4G8, StrLen(K_4G8))

\* C19: chains are finite and acyclic. Along every chain each entry's next
\* field is the sentinel 0 or an offset strictly below the entry's own
\* offset, no chain has more than count entries, and for every key the chain
\* walk of kvm_get ends within count steps, inside the written entries.
ChainsAcyclic ==
    phase = "open" =>
        /\ \A o \in DOMAIN mem : mem[o].next = 0 \/ mem[o].next < o
        /\ \A b \in Assigned : Cardinality(ChainOf(b)) <= count
        /\ \A k \in Keys :
              ChainWalk(mem, Slot(buckets, PrimaryBucket(k)), k, StrLen(k),
                        count).st \in {"null", "val"}

\* kvm_get("5f8") has just walked past the head entry "5f8t" to the older
\* entry "5f8", whose next field is the sentinel
ChainsAcyclicWitness ==
    /\ phase = "open" /\ last.op = "get" /\ last.key = K_5f8
    /\ last.got.st = "val"
    /\ LET h == Slot(buckets, PrimaryBucket(K_5f8))
       IN  /\ h \in DOMAIN mem /\ KeyAt(h) = K_5f8t
           /\ mem[h].next >= DATA_OFF /\ mem[h].next < h
           /\ mem[mem[h].next].next = 0

\* the number of entries met over the chains of the buckets in S
RECURSIVE ChainTotal(_)
ChainTotal(S) ==
    IF S = {} THEN 0
    ELSE LET b == CHOOSE x \in S : TRUE
         IN  Cardinality(ChainOf(b)) + ChainTotal(S \ {b})

\* C20: every inserted entry is stored once, inside the written zone, on
\* exactly one chain. The entries of the successful puts occupy pairwise
\* disjoint byte ranges within [DATA_OFF, write_pos), each is reachable from
\* exactly one bucket head, and the entries reachable over all chains number
\* count.
StoredOnce ==
    phase = "open" =>
        LET n == Len(puts)
            lo(i) == puts[i].at
            hi(i) == puts[i].at + AlignedSize(puts[i].key, puts[i].val)
        IN  /\ \A i \in 1 .. n :
                  /\ DATA_OFF <= lo(i) /\ hi(i) <= write_pos
                  /\ lo(i) \in DOMAIN mem /\ KeyAt(lo(i)) = puts[i].key
                  /\ Cardinality({b \in Assigned : lo(i) \in ChainOf(b)}) = 1
            /\ \A i, j \in 1 .. n :
                  i < j => (hi(i) <= lo(j) \/ hi(j) <= lo(i))
            /\ ChainTotal(Assigned) = count

\* three entries are stored, two on the chain of "5f8" and one on another
StoredOnceWitness ==
    /\ phase = "open" /\ Len(puts) = 3
    /\ Cardinality(ChainOf(PrimaryBucket(K_5f8))) = 2
    /\ Cardinality(Assigned) = 2
    /\ write_pos > DATA_OFF + 40

\* every thread's kvm_put has returned
AllDone == \A t \in Threads : thr[t].pc = "done"

\* some call began while another was between its entry and its return
Overlapped == \E t \in Threads : thr[t].ov

\* two calls that returned 0 wrote their entries at the same offset
SameOffset ==
    \E t, u \in Threads :
        t # u /\ thr[t].ret = 0 /\ thr[u].ret = 0 /\ thr[t].e = thr[u].e

\* a call returned 0, its entry is not on the chain of its key's bucket,
\* and kvm_get of its key does not return its value
EntryUnreachable ==
    \E t \in Threads :
        /\ thr[t].ret = 0
        /\ ~ \E o \in ChainOf(PrimaryBucket(thr[t].key)) :
                /\ o = thr[t].e
                /\ KeyAt(o) = thr[t].key
                /\ Take(Drop(mem[o].data, mem[o].klen), mem[o].vlen)
                      = thr[t].val
        /\ GetNow(thr[t].key) # Found(thr[t].val)

CountShort == count < nput

LostInsertion ==
    /\ phase = "open" /\ AllDone
    /\ SameOffset \/ EntryUnreachable \/ CountShort

\* C17: unsynchronised concurrent writers are unsafe. With the reads and
\* writes of the cursor, the bucket head and the count of two kvm_put calls
\* interleaved, a state is reachable where an insertion that returned 0 is
\* lost (same offset, entry off its chain, or count below the successful
\* puts); a loss needs the overlap: two calls that run one after the other
\* lose nothing, and count never exceeds the successful puts.
LossOnlyByOverlap ==
    /\ LostInsertion => Overlapped
    /\ count <= nput

\* both calls returned 0 after interleaving: "5f8" and "4G8" were written
\* at the same offset, the entry of one is gone from its bucket's chain and
\* a get of its key misses, and count is 1 after 2 successful puts
LossOnlyByOverlapWitness ==
    /\ phase = "open" /\ AllDone /\ Overlapped
    /\ {thr[t].key : t \in Threads} = {K_5f8, K_4G8}
    /\ SameOffset /\ EntryUnreachable /\ CountShort
    /\ nput = 2 /\ count = 1

=============================================================================
